---- MODULE Spec2Model ----
(***************************************************************************)
(* Intrusive doubly-linked list (pkg/sentry/fsimpl/gofer/string_list.go    *)
(* and its identical instantiations waiter_list.go, gro_packet_list.go,    *)
(* ...).  Elements are identified by address; a list holds head and tail   *)
(* pointers and every element holds next and prev pointers.                *)
(***************************************************************************)
EXTENDS Integers, Sequences, FiniteSets, TLC

\* ------------------------------------------------------------------ bounds
NumElems == 3       \* number of element addresses
NumLists == 2       \* number of list values
MaxPushes == 3      \* pushes counted per list in the push/remove replay
NumThreads == 2     \* threads that call under the external lock

Nil == 0            \* the nil pointer
Elems == 1..NumElems
Lists == 1..NumLists
Threads == 1..NumThreads
Ptr == Elems \cup {Nil}

VARIABLES
    head,       \* head[l]  : stringList.head of list l
    tail,       \* tail[l]  : stringList.tail of list l
    next,       \* next[e]  : stringEntry.next of element e
    prev,       \* prev[e]  : stringEntry.prev of element e
    last,       \* the call under observation, NoCall while there is none
    pre,        \* the memory (head, tail, next, prev) before that call
    pushes,     \* pushes[l]  : PushFront/PushBack calls replayed on l
    removes,    \* removes[l] : Remove calls replayed on l
    lock,       \* the thread that holds the external lock, 0 when it is free
    pc,         \* pc[t]      : where thread t is: "idle", "locked", "done",
                \*              or the statement of the call it is executing
    ring,       \* the elements the threads use as items of rings
    inserted,   \* the elements the caller has inserted and not yet removed
    frame,      \* frame[t]   : the receiver, argument and locals of the call
                \*              thread t is executing or has executed
    raced       \* a call has started while another call was executing

vars == <<head, tail, next, prev, last, pre, pushes, removes, lock, pc, ring,
          inserted, frame, raced>>

\* The frame of a thread that has made no call.
NoFrame == [l |-> 0, e |-> Nil, prv |-> Nil, nxt |-> Nil]

\* The memory as one value: the fields of every list and every element.
Cur == [head |-> head, tail |-> tail, next |-> next, prev |-> prev]

\* ------------------------------------------------- stringEntry (Linker)
EntryNext(h, e) == h.next[e]
EntryPrev(h, e) == h.prev[e]
SetNext(h, e, elem) == [h EXCEPT !.next[e] = elem]
SetPrev(h, e, elem) == [h EXCEPT !.prev[e] = elem]

\* assignments to l.head and l.tail
SetHead(h, l, elem) == [h EXCEPT !.head[l] = elem]
SetTail(h, l, elem) == [h EXCEPT !.tail[l] = elem]

\* ------------------------------------------------------------ stringList
\* Reset that also cuts the former head off its successor
Reset_UnlinkHead(h, l) ==
    LET h0 == IF h.head[l] # Nil THEN SetNext(h, h.head[l], Nil) ELSE h
        h1 == SetHead(h0, l, Nil)
    IN  SetTail(h1, l, Nil)

Reset(h, l) ==
    LET h1 == SetHead(h, l, Nil)
    IN  SetTail(h1, l, Nil)

Empty(h, l) == h.head[l] = Nil

Front(h, l) == h.head[l]

Back(h, l) == h.tail[l]

\* The elements met by "for e := from; e != nil; e = step(e)"; the walk is
\* cut after fuel elements so that it is defined on cyclic chains too.
RECURSIVE Walk(_, _, _)
Walk(step, from, fuel) ==
    IF from = Nil \/ fuel = 0
    THEN << >>
    ELSE <<from>> \o Walk(step, step[from], fuel - 1)

Fuel == NumElems + 1

\* for e := l.Front(); e != nil; e = e.Next()
Iterate(h, l) == Walk(h.next, Front(h, l), Fuel)

\* for e := l.Back(); e != nil; e = e.Prev()
IterateBack(h, l) == Walk(h.prev, Back(h, l), Fuel)

\* Len that counts the links followed instead of the elements visited
ListLen_CountLinks(h, l) ==
    Len(SelectSeq(Iterate(h, l), LAMBDA e : h.next[e] # Nil))

\* Len counts the elements of the forward iteration.
ListLen(h, l) == Len(Iterate(h, l))

\* PushFront that leaves l.tail alone when the list was empty
PushFront_NoTailOnEmpty(h, l, e) ==
    LET h1 == SetNext(h, e, h.head[l])
        h2 == SetPrev(h1, e, Nil)
        h3 == IF h2.head[l] # Nil
              THEN SetPrev(h2, h2.head[l], e)
              ELSE h2
    IN  SetHead(h3, l, e)

\* PushFront that does not clear e.prev
PushFront_NoSetPrev(h, l, e) ==
    LET h1 == SetNext(h, e, h.head[l])
        h3 == IF h1.head[l] # Nil
              THEN SetPrev(h1, h1.head[l], e)
              ELSE SetTail(h1, l, e)
    IN  SetHead(h3, l, e)

PushFront(h, l, e) ==
    LET h1 == SetNext(h, e, h.head[l])
        h2 == SetPrev(h1, e, Nil)
        h3 == IF h2.head[l] # Nil
              THEN SetPrev(h2, h2.head[l], e)
              ELSE SetTail(h2, l, e)
    IN  SetHead(h3, l, e)

\* PushFrontList that links m behind l
PushFrontList_AtBack(h, l, m) ==
    LET h1 == IF h.head[l] = Nil
              THEN LET g1 == SetHead(h, l, h.head[m])
                   IN  SetTail(g1, l, g1.tail[m])
              ELSE IF h.head[m] # Nil
              THEN LET g1 == SetNext(h, h.tail[l], h.head[m])
                       g2 == SetPrev(g1, g1.head[m], g1.tail[l])
                   IN  SetTail(g2, l, g2.tail[m])
              ELSE h
        h2 == SetHead(h1, m, Nil)
    IN  SetTail(h2, m, Nil)

\* PushFrontList that does not link m's tail to l's head
PushFrontList_NoTailLink(h, l, m) ==
    LET h1 == IF h.head[l] = Nil
              THEN LET g1 == SetHead(h, l, h.head[m])
                   IN  SetTail(g1, l, g1.tail[m])
              ELSE IF h.head[m] # Nil
              THEN LET g1 == SetPrev(h, h.head[l], h.tail[m])
                   IN  SetHead(g1, l, g1.head[m])
              ELSE h
        h2 == SetHead(h1, m, Nil)
    IN  SetTail(h2, m, Nil)

\* PushFrontList that does not empty m
PushFrontList_NoClear(h, l, m) ==
    IF h.head[l] = Nil
    THEN LET g1 == SetHead(h, l, h.head[m])
         IN  SetTail(g1, l, g1.tail[m])
    ELSE IF h.head[m] # Nil
    THEN LET g1 == SetPrev(h, h.head[l], h.tail[m])
             g2 == SetNext(g1, g1.tail[m], g1.head[l])
         IN  SetHead(g2, l, g2.head[m])
    ELSE h

PushFrontList(h, l, m) ==
    LET h1 == IF h.head[l] = Nil
              THEN LET g1 == SetHead(h, l, h.head[m])
                   IN  SetTail(g1, l, g1.tail[m])
              ELSE IF h.head[m] # Nil
              THEN LET g1 == SetPrev(h, h.head[l], h.tail[m])
                       g2 == SetNext(g1, g1.tail[m], g1.head[l])
                   IN  SetHead(g2, l, g2.head[m])
              ELSE h
        h2 == SetHead(h1, m, Nil)
    IN  SetTail(h2, m, Nil)

\* PushBack that does not link the former tail to e
PushBack_NoTailLink(h, l, e) ==
    LET h1 == SetNext(h, e, Nil)
        h2 == SetPrev(h1, e, h1.tail[l])
        h3 == IF h2.tail[l] # Nil
              THEN h2
              ELSE SetHead(h2, l, e)
    IN  SetTail(h3, l, e)

\* PushBack that does not clear e.next
PushBack_NoSetNext(h, l, e) ==
    LET h2 == SetPrev(h, e, h.tail[l])
        h3 == IF h2.tail[l] # Nil
              THEN SetNext(h2, h2.tail[l], e)
              ELSE SetHead(h2, l, e)
    IN  SetTail(h3, l, e)

\* PushBack that leaves l.head alone when the list was empty
PushBack_NoHeadOnEmpty(h, l, e) ==
    LET h1 == SetNext(h, e, Nil)
        h2 == SetPrev(h1, e, h1.tail[l])
        h3 == IF h2.tail[l] # Nil
              THEN SetNext(h2, h2.tail[l], e)
              ELSE h2
    IN  SetTail(h3, l, e)

\* PushBack that links e behind the element e.prev pointed to before the call
PushBack_LinkOldPrev(h, l, e) ==
    LET old == EntryPrev(h, e)
        h1 == SetNext(h, e, Nil)
        h2 == SetPrev(h1, e, h1.tail[l])
        h3 == IF old # Nil
              THEN SetNext(h2, old, e)
              ELSE IF h2.tail[l] # Nil
              THEN SetNext(h2, h2.tail[l], e)
              ELSE SetHead(h2, l, e)
    IN  SetTail(h3, l, e)

PushBack(h, l, e) ==
    LET h1 == SetNext(h, e, Nil)
        h2 == SetPrev(h1, e, h1.tail[l])
        h3 == IF h2.tail[l] # Nil
              THEN SetNext(h2, h2.tail[l], e)
              ELSE SetHead(h2, l, e)
    IN  SetTail(h3, l, e)

\* PushBackList that does not empty m
PushBackList_NoClear(h, l, m) ==
    IF h.head[l] = Nil
    THEN LET g1 == SetHead(h, l, h.head[m])
         IN  SetTail(g1, l, g1.tail[m])
    ELSE IF h.head[m] # Nil
    THEN LET g1 == SetNext(h, h.tail[l], h.head[m])
             g2 == SetPrev(g1, g1.head[m], g1.tail[l])
         IN  SetTail(g2, l, g2.tail[m])
    ELSE h

\* PushBackList that links m in front of l
PushBackList_AtFront(h, l, m) ==
    LET h1 == IF h.head[l] = Nil
              THEN LET g1 == SetHead(h, l, h.head[m])
                   IN  SetTail(g1, l, g1.tail[m])
              ELSE IF h.head[m] # Nil
              THEN LET g1 == SetPrev(h, h.head[l], h.tail[m])
                       g2 == SetNext(g1, g1.tail[m], g1.head[l])
                   IN  SetHead(g2, l, g2.head[m])
              ELSE h
        h2 == SetHead(h1, m, Nil)
    IN  SetTail(h2, m, Nil)

\* PushBackList that adopts only m's head when l is empty
PushBackList_AdoptHeadOnly(h, l, m) ==
    LET h1 == IF h.head[l] = Nil
              THEN SetHead(h, l, h.head[m])
              ELSE IF h.head[m] # Nil
              THEN LET g1 == SetNext(h, h.tail[l], h.head[m])
                       g2 == SetPrev(g1, g1.head[m], g1.tail[l])
                   IN  SetTail(g2, l, g2.tail[m])
              ELSE h
        h2 == SetHead(h1, m, Nil)
    IN  SetTail(h2, m, Nil)

\* PushBackList that does not point m's head back to l's tail
PushBackList_NoHeadPrev(h, l, m) ==
    LET h1 == IF h.head[l] = Nil
              THEN LET g1 == SetHead(h, l, h.head[m])
                   IN  SetTail(g1, l, g1.tail[m])
              ELSE IF h.head[m] # Nil
              THEN LET g1 == SetNext(h, h.tail[l], h.head[m])
                   IN  SetTail(g1, l, g1.tail[m])
              ELSE h
        h2 == SetHead(h1, m, Nil)
    IN  SetTail(h2, m, Nil)

PushBackList(h, l, m) ==
    LET h1 == IF h.head[l] = Nil
              THEN LET g1 == SetHead(h, l, h.head[m])
                   IN  SetTail(g1, l, g1.tail[m])
              ELSE IF h.head[m] # Nil
              THEN LET g1 == SetNext(h, h.tail[l], h.head[m])
                       g2 == SetPrev(g1, g1.head[m], g1.tail[l])
                   IN  SetTail(g2, l, g2.tail[m])
              ELSE h
        h2 == SetHead(h1, m, Nil)
    IN  SetTail(h2, m, Nil)

\* InsertAfter that leaves l.tail alone when b was the tail
InsertAfter_NoTailUpdate(h, l, b, e) ==
    LET a  == EntryNext(h, b)
        h1 == SetNext(h, e, a)
        h2 == SetPrev(h1, e, b)
        h3 == SetNext(h2, b, e)
    IN  IF a # Nil
        THEN SetPrev(h3, a, e)
        ELSE h3

\* InsertAfter that does not point b's former successor back to e
InsertAfter_NoSuccPrev(h, l, b, e) ==
    LET a  == EntryNext(h, b)
        h1 == SetNext(h, e, a)
        h2 == SetPrev(h1, e, b)
        h3 == SetNext(h2, b, e)
    IN  IF a # Nil
        THEN h3
        ELSE SetTail(h3, l, e)

\* InsertAfter that does not set e.prev
InsertAfter_KeepPrev(h, l, b, e) ==
    LET a  == EntryNext(h, b)
        h1 == SetNext(h, e, a)
        h3 == SetNext(h1, b, e)
    IN  IF a # Nil
        THEN SetPrev(h3, a, e)
        ELSE SetTail(h3, l, e)

\* InsertAfter that points e.next back to b instead of to b's successor
InsertAfter_NextIsAnchor(h, l, b, e) ==
    LET a  == EntryNext(h, b)
        h1 == SetNext(h, e, b)
        h2 == SetPrev(h1, e, b)
        h3 == SetNext(h2, b, e)
    IN  IF a # Nil
        THEN SetPrev(h3, a, e)
        ELSE SetTail(h3, l, e)

InsertAfter(h, l, b, e) ==
    LET a  == EntryNext(h, b)
        h1 == SetNext(h, e, a)
        h2 == SetPrev(h1, e, b)
        h3 == SetNext(h2, b, e)
    IN  IF a # Nil
        THEN SetPrev(h3, a, e)
        ELSE SetTail(h3, l, e)

\* InsertBefore that does not link a's former predecessor to e
InsertBefore_NoPredLink(h, l, a, e) ==
    LET b  == EntryPrev(h, a)
        h1 == SetNext(h, e, a)
        h2 == SetPrev(h1, e, b)
        h3 == SetPrev(h2, a, e)
    IN  IF b # Nil
        THEN h3
        ELSE SetHead(h3, l, e)

\* InsertBefore that does not move l.head when a was the head
InsertBefore_NoHeadUpdate(h, l, a, e) ==
    LET b  == EntryPrev(h, a)
        h1 == SetNext(h, e, a)
        h2 == SetPrev(h1, e, b)
        h3 == SetPrev(h2, a, e)
    IN  IF b # Nil
        THEN SetNext(h3, b, e)
        ELSE h3

InsertBefore(h, l, a, e) ==
    LET b  == EntryPrev(h, a)
        h1 == SetNext(h, e, a)
        h2 == SetPrev(h1, e, b)
        h3 == SetPrev(h2, a, e)
    IN  IF b # Nil
        THEN SetNext(h3, b, e)
        ELSE SetHead(h3, l, e)

\* Remove that leaves l.head alone when e was the head
Remove_NoHeadUpdate(h, l, e) ==
    LET prv == EntryPrev(h, e)
        nxt == EntryNext(h, e)
        h1 == IF prv # Nil
              THEN SetNext(h, prv, nxt)
              ELSE h
        h2 == IF nxt # Nil
              THEN SetPrev(h1, nxt, prv)
              ELSE IF h1.tail[l] = e
              THEN SetTail(h1, l, prv)
              ELSE h1
        h3 == SetNext(h2, e, Nil)
    IN  SetPrev(h3, e, Nil)

\* Remove that leaves l.tail alone when e was the tail
Remove_NoTailUpdate(h, l, e) ==
    LET prv == EntryPrev(h, e)
        nxt == EntryNext(h, e)
        h1 == IF prv # Nil
              THEN SetNext(h, prv, nxt)
              ELSE IF h.head[l] = e
              THEN SetHead(h, l, nxt)
              ELSE h
        h2 == IF nxt # Nil
              THEN SetPrev(h1, nxt, prv)
              ELSE h1
        h3 == SetNext(h2, e, Nil)
    IN  SetPrev(h3, e, Nil)

\* Remove that does not clear e's own links
Remove_KeepLinks(h, l, e) ==
    LET prv == EntryPrev(h, e)
        nxt == EntryNext(h, e)
        h1 == IF prv # Nil
              THEN SetNext(h, prv, nxt)
              ELSE IF h.head[l] = e
              THEN SetHead(h, l, nxt)
              ELSE h
    IN  IF nxt # Nil
        THEN SetPrev(h1, nxt, prv)
        ELSE IF h1.tail[l] = e
        THEN SetTail(h1, l, prv)
        ELSE h1

\* Remove that does not point the successor of e back to its predecessor
Remove_NoSuccPrev(h, l, e) ==
    LET prv == EntryPrev(h, e)
        nxt == EntryNext(h, e)
        h1 == IF prv # Nil
              THEN SetNext(h, prv, nxt)
              ELSE IF h.head[l] = e
              THEN SetHead(h, l, nxt)
              ELSE h
        h2 == IF nxt # Nil
              THEN h1
              ELSE IF h1.tail[l] = e
              THEN SetTail(h1, l, prv)
              ELSE h1
        h3 == SetNext(h2, e, Nil)
    IN  SetPrev(h3, e, Nil)

\* Remove that does not point the predecessor of e to its successor
Remove_NoPredNext(h, l, e) ==
    LET prv == EntryPrev(h, e)
        nxt == EntryNext(h, e)
        h1 == IF prv # Nil
              THEN h
              ELSE IF h.head[l] = e
              THEN SetHead(h, l, nxt)
              ELSE h
        h2 == IF nxt # Nil
              THEN SetPrev(h1, nxt, prv)
              ELSE IF h1.tail[l] = e
              THEN SetTail(h1, l, prv)
              ELSE h1
        h3 == SetNext(h2, e, Nil)
    IN  SetPrev(h3, e, Nil)

\* Remove that moves l.head without testing that e is the head
Remove_NoHeadTest(h, l, e) ==
    LET prv == EntryPrev(h, e)
        nxt == EntryNext(h, e)
        h1 == IF prv # Nil
              THEN SetNext(h, prv, nxt)
              ELSE SetHead(h, l, nxt)
        h2 == IF nxt # Nil
              THEN SetPrev(h1, nxt, prv)
              ELSE IF h1.tail[l] = e
              THEN SetTail(h1, l, prv)
              ELSE h1
        h3 == SetNext(h2, e, Nil)
    IN  SetPrev(h3, e, Nil)

Remove(h, l, e) ==
    LET prv == EntryPrev(h, e)
        nxt == EntryNext(h, e)
        h1 == IF prv # Nil
              THEN SetNext(h, prv, nxt)
              ELSE IF h.head[l] = e
              THEN SetHead(h, l, nxt)
              ELSE h
        h2 == IF nxt # Nil
              THEN SetPrev(h1, nxt, prv)
              ELSE IF h1.tail[l] = e
              THEN SetTail(h1, l, prv)
              ELSE h1
        h3 == SetNext(h2, e, Nil)
    IN  SetPrev(h3, e, Nil)

\* RingInit that sets only the next link
RingInit_NextOnly(h, e) == SetNext(h, e, e)

\* ------------------------------------------------------------------ rings
RingInit(h, e) ==
    LET h1 == SetNext(h, e, e)
    IN  SetPrev(h1, e, e)

\* RingAdd that does not point the successor of old back to new
RingAdd_NoSuccPrev(h, old, new) ==
    LET nxt == EntryNext(h, old)
        prv == old
        h2 == SetNext(h, new, nxt)
        h3 == SetPrev(h2, new, prv)
    IN  SetNext(h3, old, new)

\* RingAdd that does not point old to new
RingAdd_NoOldNext(h, old, new) ==
    LET nxt == EntryNext(h, old)
        prv == old
        h1 == SetPrev(h, nxt, new)
        h2 == SetNext(h1, new, nxt)
    IN  SetPrev(h2, new, prv)

RingAdd(h, old, new) ==
    LET nxt == EntryNext(h, old)
        prv == old
        h1 == SetPrev(h, nxt, new)
        h2 == SetNext(h1, new, nxt)
        h3 == SetPrev(h2, new, prv)
    IN  SetNext(h3, old, new)

\* RingRemove that does not point the predecessor of e to its successor
RingRemove_NoPrevNext(h, e) ==
    LET nxt == EntryNext(h, e)
        prv == EntryPrev(h, e)
        h1 == SetPrev(h, nxt, prv)
    IN  RingInit(h1, e)

\* RingRemove that does not re-initialize e
RingRemove_NoReinit(h, e) ==
    LET nxt == EntryNext(h, e)
        prv == EntryPrev(h, e)
        h1 == SetPrev(h, nxt, prv)
    IN  SetNext(h1, prv, nxt)

\* RingRemove that does not point the successor of e back to its predecessor
RingRemove_NoNextPrev(h, e) ==
    LET nxt == EntryNext(h, e)
        prv == EntryPrev(h, e)
        h2 == SetNext(h, prv, nxt)
    IN  RingInit(h2, e)

RingRemove(h, e) ==
    LET nxt == EntryNext(h, e)
        prv == EntryPrev(h, e)
        h1 == SetPrev(h, nxt, prv)
        h2 == SetNext(h1, prv, nxt)
    IN  RingInit(h2, e)

\* RingEmpty with the comparison inverted
RingEmpty_Inverted(h, e) == EntryNext(h, e) # e

RingEmpty(h, e) == EntryNext(h, e) = e

\* The elements met from e by "x = step(x)" until e comes round again; the
\* walk is cut at a nil link and after fuel elements.
RECURSIVE Round(_, _, _, _)
Round(step, e, x, fuel) ==
    IF x = Nil \/ fuel = 0
    THEN << >>
    ELSE IF step[x] = e
    THEN <<x>>
    ELSE <<x>> \o Round(step, e, step[x], fuel - 1)

\* e, e.Next(), e.Next().Next(), ... once round the ring of e
RingSeq(h, e) == Round(h.next, e, e, Fuel)

\* e, e.Prev(), e.Prev().Prev(), ... once round the ring of e
RingSeqBack(h, e) == Round(h.prev, e, e, Fuel)

\* e has been made part of a ring
InRing(h, e) == h.next[e] # Nil

\* e is a member of a ring of two or more
InSharedRing(h, e) == InRing(h, e) /\ h.next[e] # e

\* --------------------------------------------------- caller preconditions
Range(s) == {s[i] : i \in 1..Len(s)}

\* the elements reached by iterating l
Members(h, l) == Range(Iterate(h, l))

\* e is linked into no list
Unlinked(h, e) == \A l \in Lists : e \notin Members(h, l)

\* the elements that are linked into no list now
Fresh == {x \in Elems : Unlinked(Cur, x)}

\* ------------------------------------------------------------------ state
NoCall == [op |-> "none", l |-> 0, m |-> 0, e |-> Nil, at |-> Nil]
Call(op, l, m, e, at) == [op |-> op, l |-> l, m |-> m, e |-> e, at |-> at]

\* zero-value lists and zero-value elements
Init ==
    /\ head = [l \in Lists |-> Nil]
    /\ tail = [l \in Lists |-> Nil]
    /\ next = [e \in Elems |-> Nil]
    /\ prev = [e \in Elems |-> Nil]
    /\ last = NoCall
    /\ pre = [head |-> [l \in Lists |-> Nil], tail |-> [l \in Lists |-> Nil],
              next |-> [e \in Elems |-> Nil], prev |-> [e \in Elems |-> Nil]]
    /\ pushes = [l \in Lists |-> 0]
    /\ removes = [l \in Lists |-> 0]
    /\ lock = 0
    /\ pc = [t \in Threads |-> "idle"]
    /\ ring = {}
    /\ inserted = {}
    /\ frame = [t \in Threads |-> NoFrame]
    /\ raced = FALSE

\* The call c turns the memory into h.  A behaviour keeps at most one call
\* under observation, the call it ends with: last and pre then hold that
\* call and the memory before it.  The calls before it are not recorded.
Running == last = NoCall

Commit(h, c) ==
    /\ head' = h.head
    /\ tail' = h.tail
    /\ next' = h.next
    /\ prev' = h.prev
    /\ \/ last' = c /\ pre' = Cur
       \/ UNCHANGED <<last, pre>>
    /\ UNCHANGED <<lock, pc, ring, inserted, frame, raced>>

ResetCall ==
    /\ Running
    /\ \E l \in Lists :
            /\ Commit(Reset(Cur, l), Call("Reset", l, 0, Nil, Nil))
            /\ UNCHANGED <<pushes, removes>>

PushFrontCall ==
    /\ Running
    /\ \E e \in Fresh, l \in Lists :
            /\ Commit(PushFront(Cur, l, e), Call("PushFront", l, 0, e, Nil))
            /\ UNCHANGED <<pushes, removes>>

PushBackCall ==
    /\ Running
    /\ \E e \in Fresh, l \in Lists :
            /\ Commit(PushBack(Cur, l, e), Call("PushBack", l, 0, e, Nil))
            /\ UNCHANGED <<pushes, removes>>

InsertAfterCall ==
    /\ Running
    /\ \E e \in Fresh, l \in Lists :
        \E b \in Members(Cur, l) :
            /\ Commit(InsertAfter(Cur, l, b, e), Call("InsertAfter", l, 0, e, b))
            /\ UNCHANGED <<pushes, removes>>

InsertBeforeCall ==
    /\ Running
    /\ \E e \in Fresh, l \in Lists :
        \E a \in Members(Cur, l) :
            /\ Commit(InsertBefore(Cur, l, a, e), Call("InsertBefore", l, 0, e, a))
            /\ UNCHANGED <<pushes, removes>>

RemoveCall ==
    /\ Running
    /\ \E l \in Lists :
        \E e \in Members(Cur, l) :
            /\ Commit(Remove(Cur, l, e), Call("Remove", l, 0, e, Nil))
            /\ UNCHANGED <<pushes, removes>>

PushFrontListCall ==
    /\ Running
    /\ \E l \in Lists, m \in Lists :
            /\ l # m
            /\ Commit(PushFrontList(Cur, l, m), Call("PushFrontList", l, m, Nil, Nil))
            /\ UNCHANGED <<pushes, removes>>

PushBackListCall ==
    /\ Running
    /\ \E l \in Lists, m \in Lists :
            /\ l # m
            /\ Commit(PushBackList(Cur, l, m), Call("PushBackList", l, m, Nil, Nil))
            /\ UNCHANGED <<pushes, removes>>

Next ==
    \/ ResetCall
    \/ PushFrontCall
    \/ PushBackCall
    \/ InsertAfterCall
    \/ InsertBeforeCall
    \/ RemoveCall
    \/ PushFrontListCall
    \/ PushBackListCall

Spec == Init /\ [][Next]_vars

\* The same calls with none of them put under observation.  A call changes
\* the memory in the same way whether it is recorded or not, so the memories
\* reached are those of Spec; the claims about every reachable state, which
\* do not look at last and pre, are checked here.
NextPlain == Next /\ UNCHANGED <<last, pre>>

SpecPlain == Init /\ [][NextPlain]_vars

\* -------------------------------------------------------- ring operations
\* The elements are used as ring members only.
RingInitCall ==
    /\ Running
    /\ \E e \in Elems :
            /\ ~InSharedRing(Cur, e)
            /\ Commit(RingInit(Cur, e), Call("RingInit", 0, 0, e, Nil))
            /\ UNCHANGED <<pushes, removes>>

RingAddCall ==
    /\ Running
    /\ \E old \in Elems, new \in Elems :
            /\ InRing(Cur, old)
            /\ new # old
            /\ ~InSharedRing(Cur, new)
            /\ Commit(RingAdd(Cur, old, new), Call("RingAdd", 0, 0, new, old))
            /\ UNCHANGED <<pushes, removes>>

RingRemoveCall ==
    /\ Running
    /\ \E e \in Elems :
            /\ InRing(Cur, e)
            /\ Commit(RingRemove(Cur, e), Call("RingRemove", 0, 0, e, Nil))
            /\ UNCHANGED <<pushes, removes>>

NextRing ==
    \/ RingInitCall
    \/ RingAddCall
    \/ RingRemoveCall

SpecRing == Init /\ [][NextRing]_vars

\* ------------------------------------------- replay of pushes and removes
\* Only PushFront, PushBack and Remove are called, and the calls on each
\* list are counted.
ReplayPushFront ==
    /\ Running
    /\ \E l \in Lists, e \in Elems :
            /\ pushes[l] < MaxPushes
            /\ Unlinked(Cur, e)
            /\ Commit(PushFront(Cur, l, e), Call("PushFront", l, 0, e, Nil))
            /\ pushes' = [pushes EXCEPT ![l] = @ + 1]
            /\ UNCHANGED removes

ReplayPushBack ==
    /\ Running
    /\ \E l \in Lists, e \in Elems :
            /\ pushes[l] < MaxPushes
            /\ Unlinked(Cur, e)
            /\ Commit(PushBack(Cur, l, e), Call("PushBack", l, 0, e, Nil))
            /\ pushes' = [pushes EXCEPT ![l] = @ + 1]
            /\ UNCHANGED removes

ReplayRemove ==
    /\ Running
    /\ \E l \in Lists, e \in Elems :
            /\ e \in Members(Cur, l)
            /\ Commit(Remove(Cur, l, e), Call("Remove", l, 0, e, Nil))
            /\ removes' = [removes EXCEPT ![l] = @ + 1]
            /\ UNCHANGED pushes

NextReplay ==
    \/ ReplayPushFront
    \/ ReplayPushBack
    \/ ReplayRemove

SpecReplay == Init /\ [][NextReplay]_vars

\* ------------------------------------------- calls with any arguments
\* Lists and rings are used side by side, and a call may be made with any
\* list and any element, whether or not its precondition holds.

\* e is a member of a ring: it is in no list and its links have been set
RingMember(h, e) == Unlinked(h, e) /\ InRing(h, e)

\* e may be inserted: it is in no list and in no ring of two or more
Insertable(h, e) == Unlinked(h, e) /\ ~InSharedRing(h, e)

\* the caller's precondition of call c in memory h
Respects(h, c) ==
    CASE c.op \in {"PushFront", "PushBack"} -> Insertable(h, c.e)
      [] c.op \in {"InsertAfter", "InsertBefore"} ->
             c.at \in Members(h, c.l) /\ Insertable(h, c.e)
      [] c.op = "Remove" -> c.e \in Members(h, c.l)
      [] c.op \in {"PushFrontList", "PushBackList"} -> c.l # c.m
      [] c.op = "RingInit" -> Insertable(h, c.e)
      [] c.op = "RingAdd" ->
             RingMember(h, c.at) /\ c.e # c.at /\ Insertable(h, c.e)
      [] c.op = "RingRemove" -> RingMember(h, c.e)
      [] OTHER -> TRUE

\* Call c calls a method on a nil pointer (next.SetPrev, prev.SetNext,
\* linkerFor(m.tail).SetNext, linkerFor(l.tail).SetNext), whose assignment
\* to a field of nil is a run-time panic: the call does not return.
Faults(h, c) ==
    CASE c.op = "RingAdd" -> EntryNext(h, c.at) = Nil
      [] c.op = "RingRemove" ->
             EntryNext(h, c.e) = Nil \/ EntryPrev(h, c.e) = Nil
      [] c.op = "PushFrontList" ->
             h.head[c.l] # Nil /\ h.head[c.m] # Nil /\ h.tail[c.m] = Nil
      [] c.op = "PushBackList" ->
             h.head[c.l] # Nil /\ h.head[c.m] # Nil /\ h.tail[c.l] = Nil
      [] OTHER -> FALSE

\* the memory a faulting call leaves: the writes made before the panic
Faulted(h, c) ==
    CASE c.op = "RingRemove" /\ EntryNext(h, c.e) # Nil ->
             SetPrev(h, EntryNext(h, c.e), EntryPrev(h, c.e))
      [] c.op = "PushFrontList" -> SetPrev(h, h.head[c.l], h.tail[c.m])
      [] OTHER -> h

\* the memory after call c
Apply(h, c) ==
    IF Faults(h, c)
    THEN Faulted(h, c)
    ELSE CASE c.op = "Reset" -> Reset(h, c.l)
           [] c.op = "PushFront" -> PushFront(h, c.l, c.e)
           [] c.op = "PushBack" -> PushBack(h, c.l, c.e)
           [] c.op = "InsertAfter" -> InsertAfter(h, c.l, c.at, c.e)
           [] c.op = "InsertBefore" -> InsertBefore(h, c.l, c.at, c.e)
           [] c.op = "Remove" -> Remove(h, c.l, c.e)
           [] c.op = "PushFrontList" -> PushFrontList(h, c.l, c.m)
           [] c.op = "PushBackList" -> PushBackList(h, c.l, c.m)
           [] c.op = "RingInit" -> RingInit(h, c.e)
           [] c.op = "RingAdd" -> RingAdd(h, c.at, c.e)
           [] c.op = "RingRemove" -> RingRemove(h, c.e)

\* A call that breaks its precondition is the last call of its behaviour,
\* and so is Reset: the links it leaves on the former members no longer
\* tell a ring member from an element that is in no structure.
Issue(c) ==
    /\ Commit(Apply(Cur, c), c)
    /\ (Respects(Cur, c) /\ c.op # "Reset") \/ last' = c
    /\ UNCHANGED <<pushes, removes>>

AnyReset ==
    /\ Running
    /\ \E l \in Lists : Issue(Call("Reset", l, 0, Nil, Nil))

AnyPushFront ==
    /\ Running
    /\ \E l \in Lists, e \in Elems : Issue(Call("PushFront", l, 0, e, Nil))

AnyPushBack ==
    /\ Running
    /\ \E l \in Lists, e \in Elems : Issue(Call("PushBack", l, 0, e, Nil))

AnyInsertAfter ==
    /\ Running
    /\ \E l \in Lists, b \in Elems, e \in Elems :
            Issue(Call("InsertAfter", l, 0, e, b))

AnyInsertBefore ==
    /\ Running
    /\ \E l \in Lists, a \in Elems, e \in Elems :
            Issue(Call("InsertBefore", l, 0, e, a))

AnyRemove ==
    /\ Running
    /\ \E l \in Lists, e \in Elems : Issue(Call("Remove", l, 0, e, Nil))

AnyPushFrontList ==
    /\ Running
    /\ \E l \in Lists, m \in Lists : Issue(Call("PushFrontList", l, m, Nil, Nil))

AnyPushBackList ==
    /\ Running
    /\ \E l \in Lists, m \in Lists : Issue(Call("PushBackList", l, m, Nil, Nil))

AnyRingInit ==
    /\ Running
    /\ \E e \in Elems : Issue(Call("RingInit", 0, 0, e, Nil))

AnyRingAdd ==
    /\ Running
    /\ \E old \in Elems, new \in Elems : Issue(Call("RingAdd", 0, 0, new, old))

AnyRingRemove ==
    /\ Running
    /\ \E e \in Elems : Issue(Call("RingRemove", 0, 0, e, Nil))

NextAny ==
    \/ AnyReset
    \/ AnyPushFront
    \/ AnyPushBack
    \/ AnyInsertAfter
    \/ AnyInsertBefore
    \/ AnyRemove
    \/ AnyPushFrontList
    \/ AnyPushBackList
    \/ AnyRingInit
    \/ AnyRingAdd
    \/ AnyRingRemove

SpecAny == Init /\ [][NextAny]_vars

\* ------------------------------------------------- calls under one lock
\* Several threads call the list and ring operations, each call made while
\* holding the one external lock; lists and rings are used side by side.

\* e may be inserted: it is in no list and in no ring of two or more
Free(e) == Unlinked(Cur, e) /\ (e \in ring => RingEmpty(Cur, e))

\* thread t takes the lock
Acquire ==
    \E t \in Threads :
        /\ pc[t] = "idle"
        /\ lock = 0
        /\ lock' = t
        /\ pc' = [pc EXCEPT ![t] = "locked"]
        /\ UNCHANGED <<head, tail, next, prev, last, pre, pushes, removes, ring,
                       inserted, frame, raced>>

\* thread t gives the lock back after its call
Release ==
    \E t \in Threads :
        /\ pc[t] = "done"
        /\ lock = t
        /\ lock' = 0
        /\ pc' = [pc EXCEPT ![t] = "idle"]
        /\ UNCHANGED <<head, tail, next, prev, last, pre, pushes, removes, ring,
                       inserted, frame, raced>>

\* thread t holds the lock and has not made its call yet
Holding(t) == pc[t] = "locked" /\ lock = t

\* the call of thread t returns with the memory h and the ring items r
Return(t, h, r) ==
    /\ head' = h.head
    /\ tail' = h.tail
    /\ next' = h.next
    /\ prev' = h.prev
    /\ ring' = r
    /\ pc' = [pc EXCEPT ![t] = "done"]
    /\ UNCHANGED <<lock, last, pre, pushes, removes, inserted, frame, raced>>

\* the elements that may be inserted
FreeElems == {e \in Elems : Free(e)}

LockedReset ==
    \E t \in Threads :
        /\ Holding(t)
        /\ \E l \in Lists : Return(t, Reset(Cur, l), ring)

LockedPushFront ==
    \E t \in Threads :
        /\ Holding(t)
        /\ \E e \in FreeElems, l \in Lists :
               Return(t, PushFront(Cur, l, e), ring \ {e})

LockedPushBack ==
    \E t \in Threads :
        /\ Holding(t)
        /\ \E e \in FreeElems, l \in Lists :
               Return(t, PushBack(Cur, l, e), ring \ {e})

LockedInsertAfter ==
    \E t \in Threads :
        /\ Holding(t)
        /\ \E e \in FreeElems, l \in Lists :
               \E b \in Members(Cur, l) :
                   Return(t, InsertAfter(Cur, l, b, e), ring \ {e})

LockedInsertBefore ==
    \E t \in Threads :
        /\ Holding(t)
        /\ \E e \in FreeElems, l \in Lists :
               \E a \in Members(Cur, l) :
                   Return(t, InsertBefore(Cur, l, a, e), ring \ {e})

LockedRemove ==
    \E t \in Threads :
        /\ Holding(t)
        /\ \E l \in Lists :
               \E e \in Members(Cur, l) : Return(t, Remove(Cur, l, e), ring)

LockedPushFrontList ==
    \E t \in Threads :
        /\ Holding(t)
        /\ \E l \in Lists, m \in Lists :
               /\ l # m
               /\ Return(t, PushFrontList(Cur, l, m), ring)

LockedPushBackList ==
    \E t \in Threads :
        /\ Holding(t)
        /\ \E l \in Lists, m \in Lists :
               /\ l # m
               /\ Return(t, PushBackList(Cur, l, m), ring)

LockedRingInit ==
    \E t \in Threads :
        /\ Holding(t)
        /\ \E e \in FreeElems : Return(t, RingInit(Cur, e), ring \cup {e})

LockedRingAdd ==
    \E t \in Threads :
        /\ Holding(t)
        /\ \E old \in ring, new \in FreeElems :
               /\ new # old
               /\ Return(t, RingAdd(Cur, old, new), ring \cup {new})

LockedRingRemove ==
    \E t \in Threads :
        /\ Holding(t)
        /\ \E e \in ring : Return(t, RingRemove(Cur, e), ring)

NextLocked ==
    \/ Acquire
    \/ Release
    \/ LockedReset
    \/ LockedPushFront
    \/ LockedPushBack
    \/ LockedInsertAfter
    \/ LockedInsertBefore
    \/ LockedRemove
    \/ LockedPushFrontList
    \/ LockedPushBackList
    \/ LockedRingInit
    \/ LockedRingAdd
    \/ LockedRingRemove

SpecLocked == Init /\ [][NextLocked]_vars

\* ------------------------------------- calls with the insertions recorded
\* The caller keeps the set of the elements it has inserted and not yet
\* removed, inserts only elements outside that set, and never calls Reset.

\* The call c turns the memory into h and the recorded set into ins.
Track(h, c, ins) ==
    /\ head' = h.head
    /\ tail' = h.tail
    /\ next' = h.next
    /\ prev' = h.prev
    /\ inserted' = ins
    /\ \/ last' = c /\ pre' = Cur
       \/ UNCHANGED <<last, pre>>
    /\ UNCHANGED <<pushes, removes, lock, pc, ring, frame, raced>>

TrackedPushFront ==
    /\ Running
    /\ \E e \in Elems \ inserted, l \in Lists :
            Track(PushFront(Cur, l, e), Call("PushFront", l, 0, e, Nil),
                  inserted \cup {e})

TrackedPushBack ==
    /\ Running
    /\ \E e \in Elems \ inserted, l \in Lists :
            Track(PushBack(Cur, l, e), Call("PushBack", l, 0, e, Nil),
                  inserted \cup {e})

TrackedInsertAfter ==
    /\ Running
    /\ \E e \in Elems \ inserted, l \in Lists :
            \E b \in Members(Cur, l) :
                Track(InsertAfter(Cur, l, b, e), Call("InsertAfter", l, 0, e, b),
                      inserted \cup {e})

TrackedInsertBefore ==
    /\ Running
    /\ \E e \in Elems \ inserted, l \in Lists :
            \E a \in Members(Cur, l) :
                Track(InsertBefore(Cur, l, a, e), Call("InsertBefore", l, 0, e, a),
                      inserted \cup {e})

TrackedRemove ==
    /\ Running
    /\ \E l \in Lists :
            \E e \in Members(Cur, l) :
                Track(Remove(Cur, l, e), Call("Remove", l, 0, e, Nil),
                      inserted \ {e})

TrackedPushFrontList ==
    /\ Running
    /\ \E l \in Lists, m \in Lists :
            /\ l # m
            /\ Track(PushFrontList(Cur, l, m), Call("PushFrontList", l, m, Nil, Nil),
                     inserted)

TrackedPushBackList ==
    /\ Running
    /\ \E l \in Lists, m \in Lists :
            /\ l # m
            /\ Track(PushBackList(Cur, l, m), Call("PushBackList", l, m, Nil, Nil),
                     inserted)

NextTracked ==
    \/ TrackedPushFront
    \/ TrackedPushBack
    \/ TrackedInsertAfter
    \/ TrackedInsertBefore
    \/ TrackedRemove
    \/ TrackedPushFrontList
    \/ TrackedPushBackList

SpecTracked == Init /\ [][NextTracked]_vars

\* ---------------------------------------------------- calls without a lock
\* Two callers run PushBack and Remove of waiterList with no lock between
\* them.  A call is executed statement by statement, one access to the
\* memory the callers share per step (an access to the fields of the call's
\* own element e and the access to l.tail in the same statement are one
\* step: only this call touches e).  Each caller makes one call; the lists
\* are filled beforehand by whole PushBack calls.

\* the two callers
Racers == {t \in Threads : t <= 2}

\* thread t is inside a call
Executing(t) == pc[t] \notin {"idle", "locked", "done", "returned", "panicked"}

\* no call is being executed
Quiet == \A t \in Racers : ~Executing(t)

\* the elements that are arguments of the calls made so far
Operands == {frame[t].e : t \in {u \in Racers : pc[u] # "idle"}}

\* The memory on which a caller judges the precondition of the call it
\* starts: the current memory, or while a call is executing the memory as
\* it was before that call.
Known == IF Quiet THEN Cur ELSE pre

\* A whole PushBack before any of the two callers has made its call.  The
\* elements are taken in the order of their numbers: which element is
\* which makes no difference to the operations.
RacyFill ==
    /\ \A t \in Racers : pc[t] = "idle"
    /\ \E e \in {x \in Fresh : \A y \in Fresh : x <= y}, l \in Lists :
            LET h == PushBack(Cur, l, e)
            IN  /\ head' = h.head
                /\ tail' = h.tail
                /\ next' = h.next
                /\ prev' = h.prev
    /\ UNCHANGED <<last, pre, pushes, removes, lock, pc, ring, inserted, frame,
                   raced>>

\* Thread t enters the call c at the statement named first.  The callers
\* are numbered in the order in which they make their calls.
Begin(t, c, first) ==
    /\ pc[t] = "idle"
    /\ \A u \in Racers : u < t => pc[u] # "idle"
    /\ pc' = [pc EXCEPT ![t] = first]
    /\ frame' = [frame EXCEPT ![t] = [l |-> c.l, e |-> c.e, prv |-> Nil,
                                      nxt |-> Nil]]
    /\ raced' = (raced \/ ~Quiet)
    /\ last' = c
    /\ pre' = Known
    /\ UNCHANGED <<head, tail, next, prev, pushes, removes, lock, ring,
                   inserted>>

\* l.PushBack(e) is called with an element that is in no list
RacyPushBackBegin ==
    \E t \in Racers, l \in Lists :
        \E e \in {x \in Elems \ Operands : Unlinked(Known, x)} :
            Begin(t, Call("PushBack", l, 0, e, Nil), "PushBack112")

\* l.Remove(e) is called with a member of l
RacyRemoveBegin ==
    \E t \in Racers, l \in Lists :
        \E e \in Members(Known, l) \ Operands :
            Begin(t, Call("Remove", l, 0, e, Nil), "Remove185")

\* thread t executes one statement: the memory becomes h, its locals f, and
\* it goes on at the statement named to
Step(t, h, f, to) ==
    /\ head' = h.head
    /\ tail' = h.tail
    /\ next' = h.next
    /\ prev' = h.prev
    /\ frame' = [frame EXCEPT ![t] = f]
    /\ pc' = [pc EXCEPT ![t] = to]
    /\ UNCHANGED <<last, pre, pushes, removes, lock, ring, inserted, raced>>

\* linker.SetNext(nil)
RacyPushBackClearNext ==
    \E t \in Racers :
        /\ pc[t] = "PushBack112"
        /\ Step(t, SetNext(Cur, frame[t].e, Nil), frame[t], "PushBack113")

\* linker.SetPrev(l.tail)
RacyPushBackSetPrev ==
    \E t \in Racers :
        /\ pc[t] = "PushBack113"
        /\ Step(t, SetPrev(Cur, frame[t].e, tail[frame[t].l]), frame[t],
                "PushBack114")

\* if l.tail != nil
RacyPushBackTestTail ==
    \E t \in Racers :
        /\ pc[t] = "PushBack114"
        /\ Step(t, Cur, frame[t],
                IF tail[frame[t].l] # Nil THEN "PushBack115" ELSE "PushBack117")

\* linkerFor(l.tail): the receiver of SetNext is read from l.tail
RacyPushBackLoadTail ==
    \E t \in Racers :
        /\ pc[t] = "PushBack115"
        /\ Step(t, Cur, [frame[t] EXCEPT !.prv = tail[frame[t].l]],
                "PushBack115w")

\* .SetNext(e) on that receiver: a nil receiver is a nil dereference
RacyPushBackLinkTail ==
    \E t \in Racers :
        /\ pc[t] = "PushBack115w"
        /\ IF frame[t].prv = Nil
           THEN Step(t, Cur, frame[t], "panicked")
           ELSE Step(t, SetNext(Cur, frame[t].prv, frame[t].e), frame[t],
                     "PushBack120")

\* l.head = e
RacyPushBackSetHead ==
    \E t \in Racers :
        /\ pc[t] = "PushBack117"
        /\ Step(t, SetHead(Cur, frame[t].l, frame[t].e), frame[t],
                "PushBack120")

\* PushBack that returns without the assignment to l.tail
RacyPushBackSetTail_Skip ==
    \E t \in Racers :
        /\ pc[t] = "PushBack120"
        /\ Step(t, Cur, frame[t], "returned")

\* l.tail = e
RacyPushBackSetTail ==
    \E t \in Racers :
        /\ pc[t] = "PushBack120"
        /\ Step(t, SetTail(Cur, frame[t].l, frame[t].e), frame[t], "returned")

\* prev := linker.Prev()
RacyRemoveLoadPrev ==
    \E t \in Racers :
        /\ pc[t] = "Remove185"
        /\ Step(t, Cur, [frame[t] EXCEPT !.prv = prev[frame[t].e]],
                "Remove186")

\* next := linker.Next(); if prev != nil
RacyRemoveLoadNext ==
    \E t \in Racers :
        /\ pc[t] = "Remove186"
        /\ Step(t, Cur, [frame[t] EXCEPT !.nxt = next[frame[t].e]],
                IF frame[t].prv # Nil THEN "Remove189" ELSE "Remove190")

\* the statement after the first if: if next != nil
AfterHeadSide(f) == IF f.nxt # Nil THEN "Remove195" ELSE "Remove196"

\* linkerFor(prev).SetNext(next)
RacyRemoveLinkPrev ==
    \E t \in Racers :
        /\ pc[t] = "Remove189"
        /\ Step(t, SetNext(Cur, frame[t].prv, frame[t].nxt), frame[t],
                AfterHeadSide(frame[t]))

\* else if l.head == e
RacyRemoveTestHead ==
    \E t \in Racers :
        /\ pc[t] = "Remove190"
        /\ Step(t, Cur, frame[t],
                IF head[frame[t].l] = frame[t].e
                THEN "Remove191" ELSE AfterHeadSide(frame[t]))

\* l.head = next
RacyRemoveSetHead ==
    \E t \in Racers :
        /\ pc[t] = "Remove191"
        /\ Step(t, SetHead(Cur, frame[t].l, frame[t].nxt), frame[t],
                AfterHeadSide(frame[t]))

\* linkerFor(next).SetPrev(prev)
RacyRemoveLinkNext ==
    \E t \in Racers :
        /\ pc[t] = "Remove195"
        /\ Step(t, SetPrev(Cur, frame[t].nxt, frame[t].prv), frame[t],
                "Remove200")

\* else if l.tail == e
RacyRemoveTestTail ==
    \E t \in Racers :
        /\ pc[t] = "Remove196"
        /\ Step(t, Cur, frame[t],
                IF tail[frame[t].l] = frame[t].e
                THEN "Remove197" ELSE "Remove200")

\* l.tail = prev
RacyRemoveSetTail ==
    \E t \in Racers :
        /\ pc[t] = "Remove197"
        /\ Step(t, SetTail(Cur, frame[t].l, frame[t].prv), frame[t],
                "Remove200")

\* linker.SetNext(nil)
RacyRemoveClearNext ==
    \E t \in Racers :
        /\ pc[t] = "Remove200"
        /\ Step(t, SetNext(Cur, frame[t].e, Nil), frame[t], "Remove201")

\* linker.SetPrev(nil)
RacyRemoveClearPrev ==
    \E t \in Racers :
        /\ pc[t] = "Remove201"
        /\ Step(t, SetPrev(Cur, frame[t].e, Nil), frame[t], "returned")

NextRacy ==
    \/ RacyFill
    \/ RacyPushBackBegin
    \/ RacyRemoveBegin
    \/ RacyPushBackClearNext
    \/ RacyPushBackSetPrev
    \/ RacyPushBackTestTail
    \/ RacyPushBackLoadTail
    \/ RacyPushBackLinkTail
    \/ RacyPushBackSetHead
    \/ RacyPushBackSetTail
    \/ RacyRemoveLoadPrev
    \/ RacyRemoveLoadNext
    \/ RacyRemoveLinkPrev
    \/ RacyRemoveTestHead
    \/ RacyRemoveSetHead
    \/ RacyRemoveLinkNext
    \/ RacyRemoveTestTail
    \/ RacyRemoveSetTail
    \/ RacyRemoveClearNext
    \/ RacyRemoveClearPrev

SpecRacy == Init /\ [][NextRacy]_vars

\* ---------------------------------------------------------------- helpers
Reverse(s) == [i \in 1..Len(s) |-> s[Len(s) + 1 - i]]

NoDup(s) == \A i, j \in 1..Len(s) : i # j => s[i] # s[j]

Without(s, e) == SelectSeq(s, LAMBDA x : x # e)

TypeOK ==
    /\ head \in [Lists -> Ptr]
    /\ tail \in [Lists -> Ptr]
    /\ next \in [Elems -> Ptr]
    /\ prev \in [Elems -> Ptr]

\* ------------------------------------------------------------------ claims

ListInvariant(h, l) ==
    LET f == Iterate(h, l)
        b == IterateBack(h, l)
    IN  /\ (h.head[l] = Nil) <=> (h.tail[l] = Nil)
        /\ h.head[l] # Nil => /\ h.prev[h.head[l]] = Nil
                              /\ h.next[h.tail[l]] = Nil
        /\ NoDup(f)
        /\ f # << >> => f[Len(f)] = h.tail[l]
        /\ b = Reverse(f)
        /\ b # << >> => b[Len(b)] = h.head[l]

\* C1: in every state reached by precondition-respecting calls of PushFront,
\* PushBack, InsertAfter, InsertBefore, Remove, PushFrontList, PushBackList
\* and Reset, every list has head nil iff tail nil, head.prev and tail.next
\* nil, a forward chain that visits each member once and ends at tail, and a
\* backward chain that is its exact reverse and ends at head.
C1_ListInvariant == \A l \in Lists : ListInvariant(Cur, l)

\* a list of two or more members next to an element orphaned by Reset
W_C1 ==
    \E l \in Lists, e \in Elems :
        /\ ListLen(Cur, l) >= 2
        /\ Unlinked(Cur, e)
        /\ next[e] # Nil

\* C2: after any sequence of PushFront, PushBack and Remove calls on an
\* initially empty list, Len() equals pushes minus removes.
C2_LenIsPushesMinusRemoves ==
    \A l \in Lists : ListLen(Cur, l) = pushes[l] - removes[l]

W_C2 ==
    \E l \in Lists :
        /\ pushes[l] = MaxPushes
        /\ removes[l] >= 1
        /\ ListLen(Cur, l) >= 1

\* C3: after l.Remove(e) of a member e, e.Next() and e.Prev() are nil, e is
\* neither Front() nor Back(), and e is reached neither from Front() by next
\* nor from Back() by prev.
C3_RemoveDetaches ==
    last.op = "Remove" =>
        /\ EntryNext(Cur, last.e) = Nil
        /\ EntryPrev(Cur, last.e) = Nil
        /\ Front(Cur, last.l) # last.e
        /\ Back(Cur, last.l) # last.e
        /\ last.e \notin Range(Iterate(Cur, last.l))
        /\ last.e \notin Range(IterateBack(Cur, last.l))

\* an interior member has been removed
W_C3 ==
    /\ last.op = "Remove"
    /\ pre.next[last.e] # Nil
    /\ pre.prev[last.e] # Nil

\* C4: l.Remove(e) turns the sequence s into s without e, order of the rest
\* kept; a removed head makes its successor the head, a removed tail makes
\* its predecessor the tail, and removing the only member empties the list.
C4_RemoveSequence ==
    last.op = "Remove" =>
        LET l == last.l
            e == last.e
            s == Iterate(pre, l)
        IN  /\ Iterate(Cur, l) = Without(s, e)
            /\ Len(Iterate(Cur, l)) = Len(s) - 1
            /\ pre.head[l] = e => Front(Cur, l) = pre.next[e]
            /\ pre.tail[l] = e => Back(Cur, l) = pre.prev[e]
            /\ s = <<e>> => Front(Cur, l) = Nil /\ Back(Cur, l) = Nil

\* the tail of a list of two or more members has been removed
W_C4 ==
    /\ last.op = "Remove"
    /\ pre.tail[last.l] = last.e
    /\ pre.prev[last.e] # Nil

\* C5: l.PushBack(e) turns the sequence s into s followed by e; Back() is e,
\* e.Next() is nil, e.Prev() is the former tail, and Front() is e too when
\* the list was empty.
C5_PushBackAppends ==
    last.op = "PushBack" =>
        LET l == last.l
            e == last.e
            s == Iterate(pre, l)
        IN  /\ Iterate(Cur, l) = Append(s, e)
            /\ Back(Cur, l) = e
            /\ EntryNext(Cur, e) = Nil
            /\ EntryPrev(Cur, e) = pre.tail[l]
            /\ s = << >> => EntryPrev(Cur, e) = Nil /\ Front(Cur, l) = e
            /\ s # << >> => Front(Cur, l) = pre.head[l]

\* an element with stale links has been pushed behind an existing member
W_C5 ==
    /\ last.op = "PushBack"
    /\ pre.head[last.l] # Nil
    /\ pre.next[last.e] # Nil

\* C6: l.PushFront(e) turns the sequence s into e followed by s; Front() is
\* e, e.Prev() is nil, e.Next() is the former head, and Back() is e too when
\* the list was empty.
C6_PushFrontPrepends ==
    last.op = "PushFront" =>
        LET l == last.l
            e == last.e
            s == Iterate(pre, l)
        IN  /\ Iterate(Cur, l) = <<e>> \o s
            /\ Front(Cur, l) = e
            /\ EntryPrev(Cur, e) = Nil
            /\ EntryNext(Cur, e) = pre.head[l]
            /\ s = << >> => EntryNext(Cur, e) = Nil /\ Back(Cur, l) = e
            /\ s # << >> => Back(Cur, l) = pre.tail[l]

\* an element with stale links has been pushed in front of an existing member
W_C6 ==
    /\ last.op = "PushFront"
    /\ pre.head[last.l] # Nil
    /\ pre.prev[last.e] # Nil

\* C7: after l.InsertAfter(b, e): b.Next() is e, e.Prev() is b, e.Next() is
\* b's former successor, whose Prev() is now e; Back() is e if b was the
\* tail and unchanged otherwise; Front() is unchanged.
C7_InsertAfter ==
    last.op = "InsertAfter" =>
        LET l == last.l
            b == last.at
            e == last.e
            a == pre.next[b]
        IN  /\ EntryNext(Cur, b) = e
            /\ EntryPrev(Cur, e) = b
            /\ EntryNext(Cur, e) = a
            /\ a # Nil => EntryPrev(Cur, a) = e
            /\ pre.tail[l] = b => Back(Cur, l) = e
            /\ pre.tail[l] # b => Back(Cur, l) = pre.tail[l]
            /\ Front(Cur, l) = pre.head[l]

\* an element has been inserted between two members
W_C7 ==
    /\ last.op = "InsertAfter"
    /\ pre.next[last.at] # Nil
    /\ pre.tail[last.l] # last.at

\* C8: after l.InsertBefore(a, e): a.Prev() is e, e.Next() is a, e.Prev() is
\* a's former predecessor, whose Next() is now e; Front() is e if a was the
\* head and unchanged otherwise; Back() is unchanged.
C8_InsertBefore ==
    last.op = "InsertBefore" =>
        LET l == last.l
            a == last.at
            e == last.e
            b == pre.prev[a]
        IN  /\ EntryPrev(Cur, a) = e
            /\ EntryNext(Cur, e) = a
            /\ EntryPrev(Cur, e) = b
            /\ b # Nil => EntryNext(Cur, b) = e
            /\ pre.head[l] = a => Front(Cur, l) = e
            /\ pre.head[l] # a => Front(Cur, l) = pre.head[l]
            /\ Back(Cur, l) = pre.tail[l]

\* an element has been inserted before the head of a list
W_C8 ==
    /\ last.op = "InsertBefore"
    /\ pre.head[last.l] = last.at
    /\ pre.next[last.at] # Nil

\* C9: after l.PushFrontList(m) or l.PushBackList(m) with l and m distinct, m
\* is empty, Len(l) is the sum of the former lengths, and every former
\* member of m is a member of l and of no other list.
C9_SpliceMoves ==
    last.op \in {"PushFrontList", "PushBackList"} =>
        LET l == last.l
            m == last.m
        IN  /\ Empty(Cur, m)
            /\ Front(Cur, m) = Nil
            /\ Back(Cur, m) = Nil
            /\ ListLen(Cur, l) = ListLen(pre, l) + ListLen(pre, m)
            /\ \A x \in Members(pre, m) :
                   /\ x \in Members(Cur, l)
                   /\ \A k \in Lists \ {l} : x \notin Members(Cur, k)

\* two non-empty lists have been spliced
W_C9 ==
    /\ last.op \in {"PushFrontList", "PushBackList"}
    /\ pre.head[last.l] # Nil
    /\ pre.head[last.m] # Nil

\* C10 as stated: PushBackList yields m's former sequence followed by l's
\* prior sequence, PushFrontList yields l's prior sequence followed by m's
\* former sequence.
C10_OrderAsStated ==
    /\ last.op = "PushBackList" =>
           Iterate(Cur, last.l) = Iterate(pre, last.m) \o Iterate(pre, last.l)
    /\ last.op = "PushFrontList" =>
           Iterate(Cur, last.l) = Iterate(pre, last.l) \o Iterate(pre, last.m)

\* C10 amended: PushBackList yields l's prior sequence followed by m's former
\* sequence, PushFrontList yields m's former sequence followed by l's prior
\* sequence.
C10_ConcatenationOrder ==
    /\ last.op = "PushBackList" =>
           Iterate(Cur, last.l) = Iterate(pre, last.l) \o Iterate(pre, last.m)
    /\ last.op = "PushFrontList" =>
           Iterate(Cur, last.l) = Iterate(pre, last.m) \o Iterate(pre, last.l)

\* a list of two has been spliced onto a non-empty list
W_C10 ==
    /\ last.op \in {"PushFrontList", "PushBackList"}
    /\ pre.head[last.l] # Nil
    /\ ListLen(pre, last.m) >= 2
\* C11: l.PushFrontList(m) with l and m distinct puts m at the start of l:
\* iterating l yields m's former sequence followed by l's prior sequence,
\* both in their former order, forwards and (reversed) backwards.
C11_PushFrontListAtStart ==
    last.op = "PushFrontList" =>
        LET sl == Iterate(pre, last.l)
            sm == Iterate(pre, last.m)
        IN  /\ Iterate(Cur, last.l) = sm \o sl
            /\ IterateBack(Cur, last.l) = Reverse(sm \o sl)
            /\ sm # << >> => Front(Cur, last.l) = sm[1]
            /\ sl # << >> => Back(Cur, last.l) = sl[Len(sl)]

\* a list of two has been pushed in front of a non-empty list
W_C11 ==
    /\ last.op = "PushFrontList"
    /\ pre.head[last.l] # Nil
    /\ ListLen(pre, last.m) = 2

\* C12: l.PushBackList(m) with l and m distinct puts m at the end of l:
\* iterating l yields l's prior sequence followed by m's former sequence,
\* both in their former order, forwards and (reversed) backwards.
C12_PushBackListAtEnd ==
    last.op = "PushBackList" =>
        LET sl == Iterate(pre, last.l)
            sm == Iterate(pre, last.m)
        IN  /\ Iterate(Cur, last.l) = sl \o sm
            /\ IterateBack(Cur, last.l) = Reverse(sl \o sm)
            /\ sl # << >> => Front(Cur, last.l) = sl[1]
            /\ sm # << >> => Back(Cur, last.l) = sm[Len(sm)]

\* a non-empty list has been pushed behind a list of two
W_C12 ==
    /\ last.op = "PushBackList"
    /\ ListLen(pre, last.l) = 2
    /\ pre.head[last.m] # Nil

\* next and prev take e round one ring, each the reverse of the other
RingMemberOK(h, e) ==
    /\ h.next[e] # Nil
    /\ h.prev[e] # Nil
    /\ h.prev[h.next[e]] = e
    /\ h.next[h.prev[e]] = e
    /\ LET r == RingSeq(h, e)
           b == RingSeqBack(h, e)
       IN  /\ NoDup(r)
           /\ r[1] = e
           /\ h.next[r[Len(r)]] = e
           /\ b = <<e>> \o Reverse(Tail(r))
           /\ \A x \in Range(r) :
                  /\ Range(RingSeq(h, x)) = Range(r)
                  /\ Len(RingSeq(h, x)) = Len(r)

RingInvariant(h) == \A e \in Elems : InRing(h, e) => RingMemberOK(h, e)

\* C13: in every state reached by RingInit, RingAdd(old, new) with old a ring
\* member and new in no ring of two or more, and RingRemove of ring members,
\* every ring member has non-nil links with e.next.prev = e = e.prev.next,
\* n applications of Next() from any member of a ring of n visit every
\* member once and return to it, and Prev() is the exact reverse traversal.
C13_RingInvariant == RingInvariant(Cur)

\* a ring of three has been formed
W_C13 ==
    /\ last.op = "RingAdd"
    /\ Len(RingSeq(Cur, last.e)) = 3

\* C14: RingAdd(old, new) puts new right after old: old.Next() is new,
\* new.Prev() is old, new.Next() is old's former successor (old itself when
\* old was alone), whose Prev() is new; the ring grows by one member and the
\* cyclic order of the other members is unchanged.
C14_RingAddAfterOld ==
    last.op = "RingAdd" =>
        LET old  == last.at
            new  == last.e
            succ == pre.next[old]
            r    == RingSeq(pre, old)
        IN  /\ EntryNext(Cur, old) = new
            /\ EntryPrev(Cur, new) = old
            /\ EntryNext(Cur, new) = succ
            /\ RingEmpty(pre, old) => EntryNext(Cur, new) = old
            /\ EntryPrev(Cur, succ) = new
            /\ RingSeq(Cur, old) = <<old, new>> \o Tail(r)
            /\ Len(RingSeq(Cur, old)) = Len(r) + 1

\* an element has been added between two members of a ring
W_C14 ==
    /\ last.op = "RingAdd"
    /\ pre.next[last.at] # last.at
    /\ Len(RingSeq(Cur, last.at)) = 3

\* C15: RingRemove(e) links e's former neighbours to each other, leaves the
\* other members in one ring in their former cyclic order, and leaves e a
\* singleton ring that RingAdd accepts as either argument.
C15_RingRemove ==
    last.op = "RingRemove" =>
        LET e   == last.e
            prv == pre.prev[e]
            nxt == pre.next[e]
            r   == RingSeq(pre, e)
        IN  /\ EntryNext(Cur, prv) = nxt
            /\ EntryPrev(Cur, nxt) = prv
            /\ Len(r) >= 2 => RingSeq(Cur, nxt) = Tail(r)
            /\ EntryNext(Cur, e) = e
            /\ EntryPrev(Cur, e) = e
            /\ \A x \in Elems \ {e} :
                   /\ InRing(Cur, x) =>
                          /\ RingInvariant(RingAdd(Cur, x, e))
                          /\ EntryNext(RingAdd(Cur, x, e), x) = e
                   /\ ~InSharedRing(Cur, x) =>
                          /\ RingInvariant(RingAdd(Cur, e, x))
                          /\ EntryNext(RingAdd(Cur, e, x), e) = x

\* a member of a ring of three has been removed
W_C15 ==
    /\ last.op = "RingRemove"
    /\ Len(RingSeq(pre, last.e)) = 3

\* C16: RingRemove of a singleton leaves it a singleton, and RingRemove of
\* one member of a ring of two leaves the other member a singleton.
C16_RingRemoveSmallRings ==
    last.op = "RingRemove" =>
        LET e == last.e
            x == pre.next[e]
        IN  /\ x = e => EntryNext(Cur, e) = e /\ EntryPrev(Cur, e) = e
            /\ (x # e /\ pre.next[x] = e) =>
                   /\ EntryNext(Cur, x) = x
                   /\ EntryPrev(Cur, x) = x
                   /\ RingEmpty(Cur, x)

\* a member of a ring of two has been removed
W_C16 ==
    /\ last.op = "RingRemove"
    /\ pre.next[last.e] # last.e
    /\ pre.next[pre.next[last.e]] = last.e

\* no other element points to e and e points to no other element
Alone(h, e) ==
    /\ h.prev[e] = e
    /\ \A x \in Elems \ {e} : h.next[x] # e /\ h.prev[x] # e

\* C17: RingEmpty(e) is true exactly when e is the only member of its ring,
\* and it is true right after RingInit(e).
C17_RingEmptyIffAlone ==
    /\ \A e \in Elems :
           InRing(Cur, e) =>
               /\ RingEmpty(Cur, e) <=> Alone(Cur, e)
               /\ RingEmpty(Cur, e) <=> Len(RingSeqBack(Cur, e)) = 1
    /\ last.op = "RingInit" => RingEmpty(Cur, last.e)

\* a singleton ring next to a ring of two
W_C17 ==
    \E e \in Elems, x \in Elems :
        /\ InRing(Cur, e) /\ RingEmpty(Cur, e)
        /\ InRing(Cur, x) /\ ~RingEmpty(Cur, x)

\* C18: Reset() leaves the list empty (Front() and Back() nil, Empty() true,
\* Len() zero) and leaves the next and prev of every former member as they
\* were, so the former members stay linked in their old order.
C18_ResetKeepsLinks ==
    last.op = "Reset" =>
        LET l == last.l
            s == Iterate(pre, l)
        IN  /\ Front(Cur, l) = Nil
            /\ Back(Cur, l) = Nil
            /\ Empty(Cur, l)
            /\ ListLen(Cur, l) = 0
            /\ \A e \in Elems :
                   /\ EntryNext(Cur, e) = pre.next[e]
                   /\ EntryPrev(Cur, e) = pre.prev[e]
            /\ Walk(next, pre.head[l], Fuel) = s
            /\ Walk(prev, pre.tail[l], Fuel) = Reverse(s)

\* a list of two or more has been reset
W_C18 ==
    /\ last.op = "Reset"
    /\ ListLen(pre, last.l) >= 2

\* the memory of zero-value lists and zero-value elements
ZeroMemory ==
    [head |-> [l \in Lists |-> Nil], tail |-> [l \in Lists |-> Nil],
     next |-> [e \in Elems |-> Nil], prev |-> [e \in Elems |-> Nil]]

\* C19: in every reachable state Empty() is true iff Front() is nil iff
\* Back() is nil iff Len() is zero, and all four hold of the zero value.
C19_EmptinessObserversAgree ==
    /\ \A l \in Lists :
           /\ Empty(Cur, l) <=> Front(Cur, l) = Nil
           /\ Empty(Cur, l) <=> Back(Cur, l) = Nil
           /\ Empty(Cur, l) <=> ListLen(Cur, l) = 0
    /\ Cur = ZeroMemory =>
           \A l \in Lists :
               /\ Empty(Cur, l)
               /\ Front(Cur, l) = Nil
               /\ Back(Cur, l) = Nil
               /\ ListLen(Cur, l) = 0

\* a list has become empty again while another list has members
W_C19 ==
    /\ last.op = "Remove"
    /\ Empty(Cur, last.l)
    /\ \E m \in Lists : ~Empty(Cur, m)

\* C20 as stated: for any two elements a and b with a.next = b, b.prev = a,
\* also after Reset and re-insertion of former members.
C20_AllElementsDoublyLinked ==
    \A a \in Elems, b \in Elems : next[a] = b => prev[b] = a

\* C20 amended: for every member a of a list, a.next = b implies b.prev = a
\* and a.prev = b implies b.next = a.
C20_MembersDoublyLinked ==
    \A l \in Lists : \A a \in Members(Cur, l) : \A b \in Elems :
        /\ next[a] = b => prev[b] = a
        /\ prev[a] = b => next[b] = a

\* an element orphaned by Reset still points to a re-inserted member of a
\* list of two
W_C20 ==
    \E l \in Lists, a \in Elems :
        /\ Unlinked(Cur, a)
        /\ next[a] \in Members(Cur, l)
        /\ prev[next[a]] # a
        /\ ListLen(Cur, l) >= 2

\* The number of times "x = x.Next()" (or Prev) runs from x = from until
\* x = to; more than Fuel when the chain ends or cycles before meeting to.
RECURSIVE Hops(_, _, _, _)
Hops(step, from, to, fuel) ==
    IF from = to
    THEN 0
    ELSE IF from = Nil \/ fuel = 0
    THEN Fuel + 1
    ELSE 1 + Hops(step, step[from], to, fuel - 1)

\* C24 as stated: for a non-empty list, starting at head and following next
\* reaches tail in exactly Len() link traversals.
C24_LenStepsToTail ==
    \A l \in Lists :
        ~Empty(Cur, l) =>
            Hops(next, Front(Cur, l), Back(Cur, l), Fuel) = ListLen(Cur, l)

\* C24 amended: for a non-empty list, starting at head and following next
\* reaches tail in exactly Len() - 1 link traversals, and starting at tail
\* and following prev reaches head in as many.
C24_LenMinusOneStepsToTail ==
    \A l \in Lists :
        ~Empty(Cur, l) =>
            /\ Hops(next, Front(Cur, l), Back(Cur, l), Fuel) = ListLen(Cur, l) - 1
            /\ Hops(prev, Back(Cur, l), Front(Cur, l), Fuel) = ListLen(Cur, l) - 1

\* a list of three members, whose tail is two links from its head
W_C24 ==
    \E l \in Lists :
        /\ ListLen(Cur, l) = 3
        /\ Hops(next, Front(Cur, l), Back(Cur, l), Fuel) = 2

\* C25: after l.PushFrontList(m) or l.PushBackList(m) with m empty, l's head
\* and tail and every element's links are as before; with l empty, l has m's
\* former head and tail, l's sequence is m's former sequence and no element's
\* link has been written; in both cases m is empty afterwards.
C25_SpliceWithEmptyOperand ==
    last.op \in {"PushFrontList", "PushBackList"} =>
        LET l == last.l
            m == last.m
            linksKept == \A e \in Elems :
                             /\ EntryNext(Cur, e) = pre.next[e]
                             /\ EntryPrev(Cur, e) = pre.prev[e]
        IN  /\ Empty(pre, m) =>
                   /\ Front(Cur, l) = pre.head[l]
                   /\ Back(Cur, l) = pre.tail[l]
                   /\ Iterate(Cur, l) = Iterate(pre, l)
                   /\ linksKept
                   /\ Empty(Cur, m) /\ Back(Cur, m) = Nil
            /\ Empty(pre, l) =>
                   /\ Front(Cur, l) = pre.head[m]
                   /\ Back(Cur, l) = pre.tail[m]
                   /\ Iterate(Cur, l) = Iterate(pre, m)
                   /\ linksKept
                   /\ Empty(Cur, m) /\ Back(Cur, m) = Nil

\* an empty list has adopted a list of two or more
W_C25 ==
    /\ last.op \in {"PushFrontList", "PushBackList"}
    /\ Empty(pre, last.l)
    /\ ListLen(pre, last.m) >= 2
    /\ ListLen(Cur, last.l) >= 2

\* list l has the same head, tail, sequence and member links in g as in h
SameList(g, h, l) ==
    /\ g.head[l] = h.head[l]
    /\ g.tail[l] = h.tail[l]
    /\ Iterate(g, l) = Iterate(h, l)
    /\ \A x \in Members(h, l) :
           /\ g.next[x] = h.next[x]
           /\ g.prev[x] = h.prev[x]

\* s with e put in after its first i elements
InsertAt(s, i, e) == SubSeq(s, 1, i) \o <<e>> \o SubSeq(s, i + 1, Len(s))

\* C22: after l.Remove(e), each of k.PushFront(e), k.PushBack(e),
\* k.InsertAfter(b, e) and k.InsertBefore(a, e), on k = l or on another list
\* k, yields a list k that satisfies the list invariant with e at the front,
\* at the back, right after b or right before a, and when k is another list
\* leaves l's head, tail, sequence and member links as they were.
C22_RemovedElementReinsertable ==
    last.op = "Remove" =>
        LET l == last.l
            e == last.e
        IN  \A k \in Lists :
                LET s == Iterate(Cur, k)
                    Good(g, expected) ==
                        /\ ListInvariant(g, k)
                        /\ Iterate(g, k) = expected
                        /\ k # l => SameList(g, Cur, l)
                IN  /\ Good(PushFront(Cur, k, e), <<e>> \o s)
                    /\ Good(PushBack(Cur, k, e), s \o <<e>>)
                    /\ \A i \in 1..Len(s) :
                           /\ Good(InsertAfter(Cur, k, s[i], e), InsertAt(s, i, e))
                           /\ Good(InsertBefore(Cur, k, s[i], e), InsertAt(s, i - 1, e))

\* an element has been removed from a list that keeps a member, while
\* another list has members, so that it can go back or go to the other list
W_C22 ==
    /\ last.op = "Remove"
    /\ ListLen(Cur, last.l) >= 1
    /\ \E k \in Lists :
           /\ k # last.l
           /\ ListLen(Cur, k) >= 1
           /\ ListLen(PushBack(Cur, k, last.e), k) >= 2

\* C29: for an element e with nil links that is in no list, l.PushFront(e),
\* l.PushBack(e), l.InsertAfter(b, e) or l.InsertBefore(a, e) followed at
\* once by l.Remove(e) gives back the memory before the insertion: the same
\* head and tail of every list, the same next and prev of every element, and
\* e's links nil.
C29_InsertRemoveRoundTrip ==
    (/\ last.op \in {"PushFront", "PushBack", "InsertAfter", "InsertBefore"}
     /\ pre.next[last.e] = Nil
     /\ pre.prev[last.e] = Nil) =>
        LET g == Remove(Cur, last.l, last.e)
        IN  /\ g = pre
            /\ g.head[last.l] = pre.head[last.l]
            /\ g.tail[last.l] = pre.tail[last.l]
            /\ EntryNext(g, last.e) = Nil
            /\ EntryPrev(g, last.e) = Nil

\* an element with nil links has been inserted between two members
W_C29 ==
    /\ last.op \in {"InsertAfter", "InsertBefore"}
    /\ pre.next[last.e] = Nil
    /\ pre.prev[last.e] = Nil
    /\ next[last.e] # Nil
    /\ prev[last.e] # Nil
    /\ Remove(Cur, last.l, last.e) = pre

\* C30: for a ring containing old and an element new outside it,
\* RingAdd(old, new) followed by RingRemove(new) gives every element other
\* than new the next and prev it had before, and leaves new a singleton ring.
C30_RingAddRemoveRoundTrip ==
    last.op = "RingAdd" =>
        LET new == last.e
            g == RingRemove(Cur, new)
        IN  /\ \A x \in Elems \ {new} :
                   /\ EntryNext(g, x) = pre.next[x]
                   /\ EntryPrev(g, x) = pre.prev[x]
            /\ EntryNext(g, new) = new
            /\ EntryPrev(g, new) = new
            /\ RingEmpty(g, new)

\* new has been added to a ring of two and can be taken out again
W_C30 ==
    /\ last.op = "RingAdd"
    /\ Len(RingSeq(pre, last.at)) = 2
    /\ Len(RingSeq(Cur, last.at)) = 3
    /\ Len(RingSeq(RingRemove(Cur, last.e), last.at)) = 2

ListOps ==
    {"Reset", "PushFront", "PushBack", "InsertAfter", "InsertBefore",
     "Remove", "PushFrontList", "PushBackList"}

\* C21 as stated: every call of every list operation and of RingInit,
\* RingAdd and RingRemove returns normally, also when its precondition is
\* violated.
C21_EveryCallReturns == last # NoCall => ~Faults(pre, last)

\* C21 amended: no operation reports an error, and every call that respects
\* its precondition returns normally; so does every call of a list operation
\* and of RingInit, with or without its precondition, in a state reached by
\* precondition-respecting calls.  RingAdd(old, new) with old.next nil and
\* RingRemove(e) with e.next or e.prev nil do not return: they stop on a nil
\* dereference, RingAdd with the memory untouched, RingRemove with e not
\* re-initialized and every list's head and tail untouched.
C21_CallsReturnUnlessNilLink ==
    last # NoCall =>
        /\ Respects(pre, last) => ~Faults(pre, last)
        /\ last.op \in ListOps \cup {"RingInit"} => ~Faults(pre, last)
        /\ (last.op = "RingAdd" /\ pre.next[last.at] = Nil) =>
               /\ Faults(pre, last)
               /\ Cur = pre
        /\ (/\ last.op = "RingRemove"
            /\ pre.next[last.e] = Nil \/ pre.prev[last.e] = Nil) =>
               /\ Faults(pre, last)
               /\ EntryNext(Cur, last.e) = pre.next[last.e]
               /\ EntryPrev(Cur, last.e) = pre.prev[last.e]
               /\ \A l \in Lists : /\ Front(Cur, l) = pre.head[l]
                                   /\ Back(Cur, l) = pre.tail[l]

\* RingAdd has been called on an old element whose links are nil, while
\* another element is a member of a list
W_C21 ==
    /\ last.op = "RingAdd"
    /\ pre.next[last.at] = Nil
    /\ pre.prev[last.at] = Nil
    /\ Faults(pre, last)
    /\ \E l \in Lists : ~Empty(pre, l)

\* the list other than l that e is a member of in h, 0 when there is none
ListOf(h, e, l) ==
    IF \E k \in Lists \ {l} : e \in Members(h, k)
    THEN CHOOSE k \in Lists \ {l} : e \in Members(h, k)
    ELSE 0

\* C26 as stated: after l2.PushFront(e) or l2.PushBack(e) with e a member
\* of another list l1, both l1 and l2 violate the list invariant, and the
\* call reports no error.
C26_BothListsViolateInvariant ==
    (/\ last.op \in {"PushFront", "PushBack"}
     /\ ListOf(pre, last.e, last.l) # 0) =>
        /\ ~ListInvariant(Cur, ListOf(pre, last.e, last.l))
        /\ ~ListInvariant(Cur, last.l)
        /\ ~Faults(pre, last)

\* C26 amended: after l2.PushFront(e) or l2.PushBack(e) with e a member of
\* another list l1, the call has reported no error, e is at the pushed end
\* of l2 and l2 by itself satisfies the list invariant, e is still reached
\* from l1's head, and l1 violates the list invariant unless e was l1's only
\* member and l2 was empty.
C26_PushOfMemberCorruptsSource ==
    (/\ last.op \in {"PushFront", "PushBack"}
     /\ ListOf(pre, last.e, last.l) # 0) =>
        LET l1 == ListOf(pre, last.e, last.l)
            l2 == last.l
            e == last.e
        IN  /\ ~Faults(pre, last)
            /\ ListInvariant(Cur, l2)
            /\ last.op = "PushFront" => Iterate(Cur, l2) = <<e>> \o Iterate(pre, l2)
            /\ last.op = "PushBack" => Iterate(Cur, l2) = Iterate(pre, l2) \o <<e>>
            /\ e \in Members(Cur, l1)
            /\ ListInvariant(Cur, l1) <=>
                   (Iterate(pre, l1) = <<e>> /\ Empty(pre, l2))

\* a member of a list of two or more has been pushed onto another list
W_C26 ==
    /\ last.op \in {"PushFront", "PushBack"}
    /\ ListOf(pre, last.e, last.l) # 0
    /\ ListLen(pre, ListOf(pre, last.e, last.l)) >= 2
    /\ ~ListInvariant(Cur, ListOf(pre, last.e, last.l))
    /\ ListInvariant(Cur, last.l)

\* the memory h with e's links set to n and p
WithLinks(h, e, n, p) ==
    LET h1 == SetNext(h, e, n)
    IN  SetPrev(h1, e, p)

\* the element inserted by call c is not a member of the structure it goes
\* into, and is not the anchor of the insertion
OutsideTarget(h, c) ==
    CASE c.op \in {"PushFront", "PushBack"} -> c.e \notin Members(h, c.l)
      [] c.op \in {"InsertAfter", "InsertBefore"} ->
             c.e \notin Members(h, c.l) /\ c.e # c.at
      [] c.op = "RingAdd" -> c.e \notin Range(RingSeq(h, c.at))
      [] OTHER -> FALSE

\* C27: for an element e that is not a member of the target list or ring,
\* the memory after PushFront, PushBack, InsertAfter, InsertBefore or
\* RingAdd of e is the same whatever values e's next and prev had before
\* the call: nil, e itself, or any other element.
C27_InsertIgnoresOldLinks ==
    (/\ last.op \in {"PushFront", "PushBack", "InsertAfter", "InsertBefore", "RingAdd"}
     /\ OutsideTarget(pre, last)
     /\ ~Faults(pre, last)) =>
        \A n \in Ptr, p \in Ptr :
            Apply(WithLinks(pre, last.e, n, p), last) = Cur

\* a ring-initialized element, whose links point to itself, has been
\* inserted into a list that had members
W_C27 ==
    /\ last.op \in {"PushFront", "PushBack", "InsertAfter", "InsertBefore"}
    /\ pre.next[last.e] = last.e
    /\ pre.prev[last.e] = last.e
    /\ ~Empty(pre, last.l)
    /\ last.e \in Members(Cur, last.l)
    /\ Apply(WithLinks(pre, last.e, Nil, Nil), last) = Cur

\* C28: l.Remove(e) for an element e with nil links that is not a member of
\* l leaves every list's head and tail and every element's links unchanged;
\* and after any l.Remove(e) of a member, or of such a detached element, a
\* second l.Remove(e) changes nothing.
C28_RemoveDetachedIsNoOp ==
    last.op = "Remove" =>
        /\ (/\ pre.next[last.e] = Nil
            /\ pre.prev[last.e] = Nil
            /\ last.e \notin Members(pre, last.l)) =>
               /\ Cur = pre
               /\ Remove(Cur, last.l, last.e) = Cur
        /\ Respects(pre, last) => Remove(Cur, last.l, last.e) = Cur

\* Remove has been called on the only member of another list, whose links
\* are nil, while the list it was called on has members
W_C28 ==
    /\ last.op = "Remove"
    /\ pre.next[last.e] = Nil
    /\ pre.prev[last.e] = Nil
    /\ last.e \notin Members(pre, last.l)
    /\ ~Empty(pre, last.l)
    /\ \E k \in Lists : Iterate(pre, k) = <<last.e>>
    /\ Cur = pre

\* C23: when several threads call push, insert, remove, splice, reset and
\* ring add/remove, every call made under the one lock with its precondition
\* true when it runs, then in every state of every interleaving each list
\* satisfies the list invariant, each ring item sits in a ring of ring items
\* that next goes round once and prev goes round in reverse, no ring item is
\* in a list, and at most one thread is between taking and giving back the
\* lock.
C23_InvariantsUnderLock ==
    /\ \A l \in Lists : ListInvariant(Cur, l)
    /\ \A e \in ring :
           /\ RingMemberOK(Cur, e)
           /\ Range(RingSeq(Cur, e)) \subseteq ring
           /\ Unlinked(Cur, e)
    /\ \A t \in Threads : pc[t] # "idle" <=> lock = t

\* a thread holds the lock after its call while another thread waits, with
\* a ring of two items next to a list that has a member
W_C23 ==
    /\ lock = 2
    /\ pc[2] = "done"
    /\ pc[1] = "idle"
    /\ \E e \in ring : Len(RingSeq(Cur, e)) = 2
    /\ \E l \in Lists : ~Empty(Cur, l)

\* C35: l.PushFrontList(l) or l.PushBackList(l) on a non-empty list l returns
\* with l empty (head and tail nil) and with l's former members linked into
\* a cycle: the former tail's next is the former head, the former head's
\* prev is the former tail, next goes round the former members in their old
\* order, and no former member is reached from any list.
C35_SelfSpliceLosesMembers ==
    (/\ last.op \in {"PushFrontList", "PushBackList"}
     /\ last.l = last.m
     /\ ~Empty(pre, last.l)) =>
        LET l == last.l
            s == Iterate(pre, l)
        IN  /\ ~Faults(pre, last)
            /\ Front(Cur, l) = Nil
            /\ Back(Cur, l) = Nil
            /\ EntryNext(Cur, pre.tail[l]) = pre.head[l]
            /\ EntryPrev(Cur, pre.head[l]) = pre.tail[l]
            /\ RingSeq(Cur, pre.head[l]) = s
            /\ \A x \in Range(s) : Unlinked(Cur, x)

\* a list of two or more has been spliced onto itself
W_C35 ==
    /\ last.op \in {"PushFrontList", "PushBackList"}
    /\ last.l = last.m
    /\ ListLen(pre, last.l) >= 2
    /\ Empty(Cur, last.l)

\* C32: after a precondition-respecting PushFront, PushBack, InsertAfter,
\* InsertBefore, Remove or Reset on list l, every other list m has the head
\* and tail it had, and every element that was a member of m has the next
\* and prev it had.
C32_OtherListsUntouched ==
    last.op \in {"PushFront", "PushBack", "InsertAfter", "InsertBefore",
                 "Remove", "Reset"} =>
        \A m \in Lists \ {last.l} :
            /\ Front(Cur, m) = pre.head[m]
            /\ Back(Cur, m) = pre.tail[m]
            /\ Iterate(Cur, m) = Iterate(pre, m)
            /\ \A x \in Members(pre, m) :
                   /\ EntryNext(Cur, x) = pre.next[x]
                   /\ EntryPrev(Cur, x) = pre.prev[x]

\* an element has been inserted next to a member of l or removed from next
\* to one, while another list has members
W_C32 ==
    /\ last.op \in {"InsertAfter", "InsertBefore", "Remove"}
    /\ ListLen(pre, last.l) + ListLen(Cur, last.l) >= 3
    /\ \E m \in Lists \ {last.l} : ~Empty(pre, m)

\* C31: in every state reached by precondition-respecting PushFront,
\* PushBack, InsertAfter, InsertBefore, Remove, PushFrontList and
\* PushBackList on two or more lists, without Reset, no element is a member
\* of two lists, no element occurs twice in a list, and the members of all
\* lists together are the elements inserted and not yet removed.
C31_MembershipExclusive ==
    /\ \A l \in Lists, m \in Lists :
           l # m => Members(Cur, l) \cap Members(Cur, m) = {}
    /\ \A l \in Lists :
           /\ NoDup(Iterate(Cur, l))
           /\ ListLen(Cur, l) = Cardinality(Members(Cur, l))
    /\ UNION {Members(Cur, l) : l \in Lists} = inserted

\* two lists had members and one has been spliced onto the other or has
\* lost a member, while an element is outside every list
W_C31 ==
    /\ last.op \in {"PushFrontList", "PushBackList", "Remove"}
    /\ \E l \in Lists, m \in Lists :
           /\ l # m
           /\ ~Empty(pre, l)
           /\ ~Empty(pre, m)
    /\ inserted # {}
    /\ inserted # Elems

\* C33: in every state reached by precondition-respecting list operations,
\* Reset included, the loop "for e := l.Front(); e != nil; e = e.Next()" of
\* Len() and of iteration ends after as many steps as l has members, having
\* met each member once: the chain from head reaches nil within NumElems
\* links, so it has no cycle and no element that is its own successor.
C33_IterationTerminates ==
    \A l \in Lists :
        LET n == Hops(next, Front(Cur, l), Nil, Fuel)
            f == Iterate(Cur, l)
        IN  /\ n <= NumElems
            /\ Len(f) = n
            /\ NoDup(f)
            /\ ListLen(Cur, l) = n
            /\ \A i \in 1..n : EntryNext(Cur, f[i]) # f[i]

\* a list of three is iterated in three steps
W_C33 ==
    \E l \in Lists :
        /\ Hops(next, Front(Cur, l), Nil, Fuel) = 3
        /\ ListLen(Cur, l) = 3

\* C34: PushBack and Remove are not atomic.  Two calls executed one after the
\* other leave every list consistent and have the effect of the whole
\* operations, so a list that is inconsistent once the calls have returned
\* was damaged by calls whose statements ran interleaved, and such a state
\* exists (W_C34).  Whatever the interleaving, the next of a tail is nil
\* once the calls have returned: a tail with a successor is met only while
\* a call is being executed.
C34_DamageOnlyByInterleaving ==
    Quiet =>
        /\ \A l \in Lists : tail[l] # Nil => next[tail[l]] = Nil
        /\ ~raced =>
              /\ \A l \in Lists : ListInvariant(Cur, l)
              /\ last.op = "PushBack" => Cur = PushBack(pre, last.l, last.e)
              /\ last.op = "Remove" => Cur = Remove(pre, last.l, last.e)

\* two PushBack calls on one list ran interleaved and have both returned,
\* the list is inconsistent, and the element of one of the calls cannot be
\* reached from the head while the element of the other can
W_C34 ==
    /\ raced
    /\ \A t \in Racers : pc[t] = "returned"
    /\ frame[1].l = frame[2].l
    /\ last.op = "PushBack"
    /\ ~ListInvariant(Cur, last.l)
    /\ \E t \in Racers :
            /\ frame[t].e \notin Members(Cur, frame[t].l)
            /\ \A u \in Racers \ {t} : frame[u].e \in Members(Cur, frame[u].l)
====
